---- MODULE Spec2Model ----
(***************************************************************************)
(* Grid partition, coverage filter and polygon samplers of the imagery     *)
(* tiling scripts.                                                         *)
(*                                                                         *)
(*   SpecSections  create_geographic_sections                              *)
(*                 (create_classification_sections.py)                     *)
(*   SpecSamplers  generate_stratified_polygons                            *)
(*                 (generate_training_polygons_optimized.py) and the       *)
(*                 random-polygon loops of the section scripts             *)
(*                                                                         *)
(* Map coordinates are Python floats in the scripts.  Here they are exact  *)
(* rationals <<n, d>> (d > 0, lowest terms), so that total_width / cols is *)
(* the true quotient and not a rounded one.                                *)
(***************************************************************************)
EXTENDS Integers, Sequences, FiniteSets, TLC

(***************************************************************************)
(* Exact rational arithmetic standing for the scripts' float arithmetic.   *)
(***************************************************************************)
Abs(i) == IF i < 0 THEN -i ELSE i

RECURSIVE GCD(_, _)
GCD(a, b) == IF b = 0 THEN a ELSE GCD(b, a % b)

Norm(n, d) ==
    LET g == GCD(Abs(n), d) IN <<n \div g, d \div g>>

Rat(i) == <<i, 1>>

RAdd(a, b) == Norm(a[1] * b[2] + b[1] * a[2], a[2] * b[2])

RSub(a, b) == Norm(a[1] * b[2] - b[1] * a[2], a[2] * b[2])

RMul(a, b) == Norm(a[1] * b[1], a[2] * b[2])

RDivInt(a, k) == Norm(a[1], a[2] * k)

RLt(a, b) == a[1] * b[2] < b[1] * a[2]

RLe(a, b) == a[1] * b[2] <= b[1] * a[2]

RMin(a, b) == IF RLt(b, a) THEN b ELSE a

RMax(a, b) == IF RLt(a, b) THEN b ELSE a

(***************************************************************************)
(* Bounds of the model.                                                    *)
(***************************************************************************)
MaxSections == 13

(***************************************************************************)
(* Inputs of create_geographic_sections: the boundary's extent (metres)    *)
(* and the boundary polygon itself.  The boundary is a rectilinear         *)
(* "staircase": three horizontal bands, band j covering x from XMin to     *)
(* xhi[j]; at least one band reaches XMax, so the extent is its bounding   *)
(* box.  A boundary of zero width or height has no bands of positive area. *)
(***************************************************************************)
Origins == {<<0, 0>>, <<500, 250>>}

Widths == {0, 6000, 8000}

Heights == {0, 3000, 6000}

Extents ==
    { [XMin |-> o[1], YMin |-> o[2], XMax |-> o[1] + w, YMax |-> o[2] + h] :
        o \in Origins, w \in Widths, h \in Heights }

XhiOffsets(w) == { k \in {w \div 4 + 100, w \div 2 + 100, w \div 2 + 500, w} : k <= w }

Boundaries(e) ==
    LET w == e.XMax - e.XMin
        h == e.YMax - e.YMin
        b1 == e.YMin + h \div 3
        b2 == e.YMin + (2 * h) \div 3
    IN  { << [ylo |-> e.YMin, yhi |-> b1,     xhi |-> e.XMin + k[1]],
             [ylo |-> b1,     yhi |-> b2,     xhi |-> e.XMin + k[2]],
             [ylo |-> b2,     yhi |-> e.YMax, xhi |-> e.XMin + k[3]] >> :
            k \in { t \in XhiOffsets(w) \X XhiOffsets(w) \X XhiOffsets(w) :
                      w \in {t[1], t[2], t[3]} } }

VARIABLES
    num_sections,        \* requested number of sections
    extent,              \* desc.extent of the boundary shapefile
    boundary,            \* the boundary polygon (bands)
    cols, rows,          \* chosen layout
    sections_to_create,
    row, col,            \* loop indices
    section_id,
    sections,            \* list of section_info dicts
    evaluated,           \* trace of the loop bodies executed (id, row, col, extent, area)
    printed,             \* diagnostic lines printed by the loop
    outcome,             \* "none", "returned" or the name of the error raised
    spc,                 \* position in create_geographic_sections
    run,                 \* 1 in the first execution of the call, 2 in the second
    first_sections       \* the list the first execution returned

secVars == <<num_sections, extent, boundary, cols, rows, sections_to_create,
             row, col, section_id, sections, evaluated, printed, outcome, spc,
             run, first_sections>>

VARIABLES
    sampler,             \* which sampling code runs: "none", "stratified", ...
    num_polygons,        \* target number of polygons
    polygon_size,        \* polygon size in map units
    cell_size,           \* meanCellWidth = meanCellHeight of the raster
    width, height,       \* raster dimensions in cells
    data_xmin,           \* raster columns >= data_xmin hold data, the others NoData
    grid_polygons, random_polygons,
    buffer_cells,
    grid_spacing_x, grid_spacing_y,
    grid_y, grid_x,      \* loop variables of the grid pass
    grid_count,
    grid_candidates,     \* number of grid-pass loop bodies that evaluated a candidate
    random_count,
    attempts, max_attempts,
    valid_polygons,      \* list of accepted polygon dicts
    num_random_polygons, \* target of a section script
    successful_polygons,
    section_polygon,     \* region a section script samples (set of unit cells)
    inserted,            \* rows written by a section script's InsertCursor
    ret,                 \* "none", or what the code hands back: the returned tuple
                         \* (shapefile or None, count), or a script's output
                         \* shapefile and the count it reports
    ppc,                 \* position in the sampling code
    raised,              \* "none" or the name of the error the code ends in
    all_valid,           \* every validity lookup evaluated so far answered valid
    provider_failures    \* length of the current run of failed provider lookups

smpVars == <<sampler, num_polygons, polygon_size, cell_size, width, height, data_xmin,
             grid_polygons, random_polygons, buffer_cells, grid_spacing_x,
             grid_spacing_y, grid_y, grid_x, grid_count, grid_candidates,
             random_count, attempts, max_attempts, valid_polygons,
             num_random_polygons, successful_polygons, section_polygon, inserted,
             ret, ppc, raised, all_valid, provider_failures>>

loopVars == <<num_random_polygons, successful_polygons, section_polygon, inserted>>

obsVars == <<raised, all_valid, provider_failures>>

VARIABLES
    fn,                  \* the function under evaluation, "none" when idle
    arg,                 \* its arguments
    out,                 \* what it returned, <<>> before it returns
    num_vertices,        \* create_random_irregular_polygon: vertices to draw
    vertices             \* create_random_irregular_polygon: the list built

fnVars == <<fn, arg, out, num_vertices, vertices>>

VARIABLES
    tile_script,         \* the tiling script that runs, "none" when idle
    layer_extent,        \* xmin, ymin, xmax, ymax of the layer
    tile_size,
    tiles_x, tiles_y,
    tile_extents,        \* list of (x0, y0, x1, y1, row, col)
    batch_start,
    idx,                 \* position in batch_tiles
    attempt,             \* loop variable of the retry loop
    processed_count,
    failed_count,
    failed_tiles,        \* the failed_tiles list (tile numbers)
    failed_tiles_file,   \* lines appended to the failed-tiles file
    clip_log,            \* every Clip call made: tile, batch, attempt, outcome
    tpc                  \* position in the tiling script

tilVars == <<tile_script, layer_extent, tile_size, tiles_x, tiles_y, tile_extents,
             batch_start, idx, attempt, processed_count, failed_count,
             failed_tiles, failed_tiles_file, clip_log, tpc>>

VARIABLES
    wpc,                 \* position in main_workflow, "idle" when it does not run
    boundary_on_disk,    \* a file exists at the boundary path
    boundary_file,       \* the variable boundary_file: "path" or "None"
    use_existing,        \* the answer to "Use existing boundary?", "" before
    mask_calls,          \* output_shapefile of every create_imagery_boundary_mask call
    sections_shp,        \* what create_geographic_sections returned: "path" or "None"
    num_people,
    size_choice,         \* the polygon size chosen in Step 3
    training_results,    \* "unset", or what process_all_sections returned
    reached,             \* the steps whose banner was printed, in order
    wf_raised            \* "none" or the error main_workflow ended in

wfVars == <<wpc, boundary_on_disk, boundary_file, use_existing, mask_calls,
            sections_shp, num_people, size_choice, training_results, reached,
            wf_raised>>

othVars == <<tilVars, wfVars>>

vars == <<secVars, smpVars, fnVars, othVars>>

\* No tiling script runs.
TilingIdle ==
    /\ tile_script = "none"
    /\ layer_extent = [xmin |-> 0, ymin |-> 0, xmax |-> 0, ymax |-> 0]
    /\ tile_size = 0
    /\ tiles_x = 0
    /\ tiles_y = 0
    /\ tile_extents = <<>>
    /\ batch_start = 0
    /\ idx = 0
    /\ attempt = 0
    /\ processed_count = 0
    /\ failed_count = 0
    /\ failed_tiles = <<>>
    /\ failed_tiles_file = <<>>
    /\ clip_log = <<>>
    /\ tpc = "idle"

\* main_workflow does not run.
WorkflowIdle ==
    /\ wpc = "idle"
    /\ boundary_on_disk = FALSE
    /\ boundary_file = "None"
    /\ use_existing = ""
    /\ mask_calls = <<>>
    /\ sections_shp = "None"
    /\ num_people = 0
    /\ size_choice = 0
    /\ training_results = "unset"
    /\ reached = <<>>
    /\ wf_raised = "none"

OthersIdle == TilingIdle /\ WorkflowIdle

\* No function is evaluated on its own.
FunctionsIdle ==
    /\ fn = "none"
    /\ arg = <<>>
    /\ out = <<>>
    /\ num_vertices = 0
    /\ vertices = <<>>

\* The sampling code is not running.
SamplerIdle ==
    /\ sampler = "none"
    /\ num_polygons = 0
    /\ polygon_size = 0
    /\ cell_size = 0
    /\ width = 0
    /\ height = 0
    /\ data_xmin = 0
    /\ grid_polygons = 0
    /\ random_polygons = 0
    /\ buffer_cells = 0
    /\ grid_spacing_x = 0
    /\ grid_spacing_y = 0
    /\ grid_y = 0
    /\ grid_x = 0
    /\ grid_count = 0
    /\ grid_candidates = 0
    /\ random_count = 0
    /\ attempts = 0
    /\ max_attempts = 0
    /\ valid_polygons = <<>>
    /\ num_random_polygons = 0
    /\ successful_polygons = 0
    /\ section_polygon = {}
    /\ inserted = <<>>
    /\ ret = "none"
    /\ ppc = "idle"
    /\ raised = "none"
    /\ all_valid = TRUE
    /\ provider_failures = 0

(***************************************************************************)
(* Lines 62-71: the layout heuristic, as <<cols, rows>>.                   *)
(***************************************************************************)
LayoutBug(n) ==
    IF n <= 4 THEN <<2, 2>>
    ELSE IF n < 6 THEN <<3, 2>>
    ELSE IF n <= 9 THEN <<3, 3>>
    ELSE <<4, 3>>

Layout(n) ==
    IF n <= 4 THEN <<2, 2>>
    ELSE IF n <= 6 THEN <<3, 2>>
    ELSE IF n <= 9 THEN <<3, 3>>
    ELSE <<4, 3>>

(***************************************************************************)
(* Lines 73-79: number of cells the loop will evaluate.                    *)
(***************************************************************************)
SectionsToCreateBug(n, c, r) == c * r

SectionsToCreate(n, c, r) ==
    LET total_cells == c * r
    IN  IF total_cells > n THEN n ELSE total_cells

(***************************************************************************)
(* Lines 83-87 and 100-104: the rectangle of cell (r, c), 0-based.         *)
(***************************************************************************)
SectionBoundsBug(e, c, r, rw, cl) ==
    LET section_width  == RDivInt(Rat(e.XMax - e.XMin), c)
        section_height == RDivInt(Rat(e.YMax - e.YMin), r)
    IN  [xmin |-> RAdd(Rat(e.XMin), RMul(Rat(cl), section_width)),
         xmax |-> RAdd(Rat(e.XMin), RMul(Rat(cl), section_width)),
         ymin |-> RAdd(Rat(e.YMin), RMul(Rat(rw), section_height)),
         ymax |-> RAdd(Rat(e.YMin), RMul(Rat(rw + 1), section_height))]

SectionBounds(e, c, r, rw, cl) ==
    LET total_width    == e.XMax - e.XMin
        total_height   == e.YMax - e.YMin
        section_width  == RDivInt(Rat(total_width), c)
        section_height == RDivInt(Rat(total_height), r)
    IN  [xmin |-> RAdd(Rat(e.XMin), RMul(Rat(cl), section_width)),
         xmax |-> RAdd(Rat(e.XMin), RMul(Rat(cl + 1), section_width)),
         ymin |-> RAdd(Rat(e.YMin), RMul(Rat(rw), section_height)),
         ymax |-> RAdd(Rat(e.YMin), RMul(Rat(rw + 1), section_height))]

(***************************************************************************)
(* Lines 114-137: Intersect of the cell polygon with the boundary and the  *)
(* sum of the areas of the pieces, in square metres.                       *)
(***************************************************************************)
OverlapLen(lo1, hi1, lo2, hi2) ==
    LET lo == RMax(lo1, lo2)
        hi == RMin(hi1, hi2)
    IN  IF RLt(lo, hi) THEN RSub(hi, lo) ELSE Rat(0)

BandArea(b, e, band) ==
    RMul(OverlapLen(b.xmin, b.xmax, Rat(e.XMin), Rat(band.xhi)),
         OverlapLen(b.ymin, b.ymax, Rat(band.ylo), Rat(band.yhi)))

RECURSIVE IntersectArea(_, _, _, _)
IntersectArea(b, e, bnd, j) ==
    IF j = 0 THEN Rat(0)
    ELSE RAdd(IntersectArea(b, e, bnd, j - 1), BandArea(b, e, bnd[j]))

(***************************************************************************)
(* Line 137: square metres to square kilometres.                           *)
(***************************************************************************)
SqM_PER_SqKm == 1000000

AreaSqKm(b, e, bnd) == RDivInt(IntersectArea(b, e, bnd, Len(bnd)), SqM_PER_SqKm)

(***************************************************************************)
(* Line 139: the coverage test, "more than 1 sq km of imagery".            *)
(***************************************************************************)
MinAreaSqKm == 1

IncludeSectionBug(area_sqkm) == RLe(Rat(MinAreaSqKm), area_sqkm)

IncludeSection(area_sqkm) == RLt(Rat(MinAreaSqKm), area_sqkm)

(***************************************************************************)
(* Lines 144-145: formatted fields of section_info.                        *)
(***************************************************************************)
GridPosition(rw, cl) == "R" \o ToString(rw + 1) \o "C" \o ToString(cl + 1)

PolyFeature(id) == "in_memory/section_" \o ToString(id) \o "_intersect"

(***************************************************************************)
(* State after the boundary has been described (line 60).                  *)
(***************************************************************************)
InitSections ==
    /\ num_sections \in 0..MaxSections
    /\ extent \in Extents
    /\ boundary \in Boundaries(extent)
    /\ cols = 0
    /\ rows = 0
    /\ sections_to_create = 0
    /\ row = 0
    /\ col = 0
    /\ section_id = 0
    /\ sections = <<>>
    /\ evaluated = <<>>
    /\ printed = <<>>
    /\ outcome = "none"
    /\ spc = "layout"
    /\ run = 1
    /\ first_sections = <<>>
    /\ SamplerIdle
    /\ FunctionsIdle
    /\ OthersIdle

(* Line 93: the first section id.  The faulty variant carries on from the id
   the previous execution ended with. *)
FirstSectionIdBug == section_id

FirstSectionId == 1

(* Lines 62-93: layout, trim, loop initialisation. *)
ChooseLayout ==
    /\ spc = "layout"
    /\ cols' = Layout(num_sections)[1]
    /\ rows' = Layout(num_sections)[2]
    /\ sections_to_create' =
           SectionsToCreate(num_sections, Layout(num_sections)[1], Layout(num_sections)[2])
    /\ sections' = <<>>
    /\ section_id' = FirstSectionId
    /\ row' = 0
    /\ col' = 0
    /\ spc' = "loop"
    /\ UNCHANGED <<num_sections, extent, boundary, evaluated, printed, outcome,
                   run, first_sections, smpVars, fnVars, othVars>>

(* Lines 96-151: one pass of the inner loop body that is not cut by the break. *)
EvaluateSection ==
    /\ spc = "loop"
    /\ row < rows
    /\ col < cols
    /\ ~(section_id > sections_to_create)
    /\ LET b == SectionBounds(extent, cols, rows, row, col)
           area_sqkm == AreaSqKm(b, extent, boundary)
           section_info == [id |-> section_id,
                            extent |-> <<b.xmin, b.ymin, b.xmax, b.ymax>>,
                            area_sqkm |-> area_sqkm,
                            grid_position |-> GridPosition(row, col),
                            poly_feature |-> PolyFeature(section_id)]
       IN  /\ evaluated' = Append(evaluated,
                                  [id |-> section_id, row |-> row, col |-> col,
                                   bounds |-> b, area_sqkm |-> area_sqkm])
           /\ IF IncludeSection(area_sqkm)
              THEN /\ sections' = Append(sections, section_info)
                   /\ printed' = Append(printed,
                                        [kind |-> "section", id |-> section_id,
                                         grid_position |-> GridPosition(row, col)])
              ELSE UNCHANGED <<sections, printed>>
    /\ section_id' = section_id + 1
    /\ col' = col + 1
    /\ UNCHANGED <<num_sections, extent, boundary, cols, rows, sections_to_create,
                   row, outcome, spc,
                   run, first_sections, smpVars, fnVars, othVars>>

(* Lines 97-98: the break leaves the inner loop; the outer loop goes on. *)
BreakRow ==
    /\ spc = "loop"
    /\ row < rows
    /\ col < cols
    /\ section_id > sections_to_create
    /\ row' = row + 1
    /\ col' = 0
    /\ UNCHANGED <<num_sections, extent, boundary, cols, rows, sections_to_create,
                   section_id, sections, evaluated, printed, outcome, spc,
                   run, first_sections, smpVars, fnVars, othVars>>

(* Line 96: the inner range is exhausted. *)
NextRow ==
    /\ spc = "loop"
    /\ row < rows
    /\ col = cols
    /\ row' = row + 1
    /\ col' = 0
    /\ UNCHANGED <<num_sections, extent, boundary, cols, rows, sections_to_create,
                   section_id, sections, evaluated, printed, outcome, spc,
                   run, first_sections, smpVars, fnVars, othVars>>

(* Lines 153-211: the outer range is exhausted; files are written and the
   function returns (section_shapefile, metadata_file, sections). *)
ReturnSections ==
    /\ spc = "loop"
    /\ row = rows
    /\ outcome' = "returned"
    /\ spc' = "done"
    /\ UNCHANGED <<num_sections, extent, boundary, cols, rows, sections_to_create,
                   row, col, section_id, sections, evaluated, printed, run, first_sections,
                   smpVars, fnVars, othVars>>

(* Lines 5-60 once more: the call is executed a second time with the same
   arguments; the list the first execution returned is kept aside. *)
CallAgain ==
    /\ spc = "done"
    /\ run = 1
    /\ first_sections' = sections
    /\ run' = 2
    /\ sections' = <<>>
    /\ evaluated' = <<>>
    /\ printed' = <<>>
    /\ outcome' = "none"
    /\ spc' = "layout"
    /\ UNCHANGED <<num_sections, extent, boundary, cols, rows, sections_to_create,
                   row, col, section_id, smpVars, fnVars, othVars>>

NextSections ==
    \/ ChooseLayout
    \/ EvaluateSection
    \/ BreakRow
    \/ NextRow
    \/ ReturnSections
    \/ CallAgain

SpecSections == InitSections /\ [][NextSections]_vars

(***************************************************************************)
(* generate_stratified_polygons (generate_training_polygons_optimized.py). *)
(*                                                                         *)
(* Map coordinates are kept relative to (extent.XMin, extent.YMin) and in  *)
(* units of 1/RandomDraws of a map unit: random.random() is drawn from     *)
(* {0, 1/RandomDraws, ..., (RandomDraws-1)/RandomDraws}.                   *)
(***************************************************************************)
MaxPolygons == 4

RandomDraws == 2

PolygonSizes == {1, 2}

CellSizes == {1, 2}

RasterWidths == {1, 12, 22}

RasterHeights == {1, 12}

DataEdges(w) == {0, 6, w}

SectionsIdle ==
    /\ num_sections = 0
    /\ extent = [XMin |-> 0, YMin |-> 0, XMax |-> 0, YMax |-> 0]
    /\ boundary = <<>>
    /\ cols = 0
    /\ rows = 0
    /\ sections_to_create = 0
    /\ row = 0
    /\ col = 0
    /\ section_id = 0
    /\ sections = <<>>
    /\ evaluated = <<>>
    /\ printed = <<>>
    /\ outcome = "none"
    /\ spc = "idle"
    /\ run = 0
    /\ first_sections = <<>>

Min(a, b) == IF a < b THEN a ELSE b

Max(a, b) == IF a > b THEN a ELSE b

\* int(math.sqrt(n)) for n >= 0.
ISqrt(n) == CHOOSE k \in 0..n : k * k <= n /\ (k + 1) * (k + 1) > n

\* Line 65: int(num_polygons * 0.7).  In IEEE double arithmetic n * 0.7 falls
\* just below the integer 7n/10 for these n < 400, and int() truncates.
RoundsBelow == {90, 170, 180, 330, 340, 350, 360}

GridPolygons(n) ==
    IF n \in RoundsBelow THEN (7 * n) \div 10 - 1 ELSE (7 * n) \div 10

\* Line 66.
RandomPolygons(n) == n - GridPolygons(n)

\* Lines 89-90: int((polygon_size / min(cell_size_x, cell_size_y)) / 2) + 5.
BufferCells(ps, cs) == ps \div (2 * cs) + 5

\* Lines 94-95.
GridSpacing(dim, g) == dim \div (ISqrt(g) + 1)

\* Lines 104-105: random.randint(-spacing//4, spacing//4); the unary minus
\* binds before the floor division.
JitterSet(spacing) == ((-spacing) \div 4)..(spacing \div 4)

\* Lines 107-108.
FinalPos(dim, b, g, jitter) == Max(b, Min(dim - b, g + jitter))

\* Lines 111-112, relative to the extent's corner.
MapCoord(pos, cs) == pos * cs * RandomDraws

\* Lines 143-144, for random.random() = k / RandomDraws.
RandomCoord(k, b, dim, cs) == (b * RandomDraws + k * (dim - 2 * b)) * cs

\* Line 137.
MaxAttemptsBug(rp) == rp * 25

MaxAttempts(rp) == rp * 5

\* The raster cell holding a map coordinate.
CellOf(x, cs) == x \div (cs * RandomDraws)

HasData(x, y, cs, w, h, dx) ==
    /\ CellOf(x, cs) >= dx /\ CellOf(x, cs) < w
    /\ CellOf(y, cs) >= 0 /\ CellOf(y, cs) < h

\* Lines 205-212: GetCellValue is not NoData; any failure of the lookup is
\* swallowed and reported as an invalid location.
IsValidLocationBug(x, y, cs, w, h, dx, lookup_fails) ==
    IF lookup_fails THEN TRUE ELSE HasData(x, y, cs, w, h, dx)

IsValidLocation(x, y, cs, w, h, dx, lookup_fails) ==
    IF lookup_fails THEN FALSE ELSE HasData(x, y, cs, w, h, dx)

\* Lines 100 and 128: the grid quota is reached.
QuotaReachedBug(count, quota) == count > quota

QuotaReached(count, quota) == count >= quota

\* The number of consecutive provider failures a run tolerates.  The
\* specification leaves the value to the configuration; the code has none.
FailureThreshold == 2

\* The run of failed lookups after one more lookup, counted up to one past the
\* threshold: the handlers of lines 205-212 and of sections lines 47-76 turn a
\* failure into the answer False and keep no count.
CountFailure(failed, n) ==
    IF failed THEN Min(n + 1, FailureThreshold + 1) ELSE 0

\* Lines 146-154.
TooCloseBug(x, y, ps, polys) ==
    \E i \in 1..Len(polys) :
        /\ polys[i].strategy = "grid_based"
        /\ (x - polys[i].center_x) * (x - polys[i].center_x)
             + (y - polys[i].center_y) * (y - polys[i].center_y)
           < (ps * 2 * RandomDraws) * (ps * 2 * RandomDraws)

TooClose(x, y, ps, polys) ==
    LET min_distance == ps * 2
    IN  \E i \in 1..Len(polys) :
            (x - polys[i].center_x) * (x - polys[i].center_x)
              + (y - polys[i].center_y) * (y - polys[i].center_y)
            < (min_distance * RandomDraws) * (min_distance * RandomDraws)

\* f'{n:03d}'
Pad3(n) ==
    IF n < 10 THEN "00" \o ToString(n)
    ELSE IF n < 100 THEN "0" \o ToString(n)
    ELSE ToString(n)

\* Lines 118-125 and 159-166.
PolygonRecord(prefix, strategy, n, x, y, ps) ==
    [poly_id |-> prefix \o Pad3(n), strategy |-> strategy,
     center_x |-> x, center_y |-> y, size_m |-> ps]

\* Lines 214-224: the hexagon of radius size / 2 has the vertices
\* (center_x - radius, center_y) and (center_x + radius, center_y), so it
\* contains the open segment between them and a neighbourhood of each of its
\* points.  These are the raster cells (column, row) that segment meets: cells
\* the hexagon overlaps with positive area.
HexagonCells(x, y, ps, cs, w, h) ==
    { c \in (-1..w) \X (-1..h) :
        /\ 2 * c[1] * cs * RandomDraws < 2 * x + ps * RandomDraws
        /\ 2 * (c[1] + 1) * cs * RandomDraws > 2 * x - ps * RandomDraws
        /\ c[2] * cs * RandomDraws <= y
        /\ (c[2] + 1) * cs * RandomDraws >= y }

\* The raster's cells holding data: the region the polygons are sampled from.
DataCells(w, h, dx) == { c \in (0..(w - 1)) \X (0..(h - 1)) : c[1] >= dx }

InitStratified ==
    /\ SectionsIdle
    /\ FunctionsIdle
    /\ OthersIdle
    /\ sampler = "stratified"
    /\ num_polygons \in 0..MaxPolygons
    /\ polygon_size \in PolygonSizes
    /\ cell_size \in CellSizes
    /\ width \in RasterWidths
    /\ height \in RasterHeights
    /\ data_xmin \in DataEdges(width)
    /\ grid_polygons = 0
    /\ random_polygons = 0
    /\ buffer_cells = 0
    /\ grid_spacing_x = 0
    /\ grid_spacing_y = 0
    /\ grid_y = 0
    /\ grid_x = 0
    /\ grid_count = 0
    /\ grid_candidates = 0
    /\ random_count = 0
    /\ attempts = 0
    /\ max_attempts = 0
    /\ valid_polygons = <<>>
    /\ num_random_polygons = 0
    /\ successful_polygons = 0
    /\ section_polygon = {}
    /\ inserted = <<>>
    /\ ret = "none"
    /\ ppc = "start"
    /\ raised = "none"
    /\ all_valid = TRUE
    /\ provider_failures = 0

\* Lines 133-137.
EnterRandomPass ==
    /\ random_count' = 0
    /\ attempts' = 0
    /\ max_attempts' = MaxAttempts(random_polygons)
    /\ ppc' = "random"

\* Lines 47-99: set-up up to the first evaluation of the two range() calls.
\* range() with step 0 raises ValueError, which the handler at line 201 turns
\* into the return value (None, 0).
StartStratified ==
    /\ sampler = "stratified"
    /\ ppc = "start"
    /\ LET g  == GridPolygons(num_polygons)
           b  == BufferCells(polygon_size, cell_size)
           sx == GridSpacing(width, g)
           sy == GridSpacing(height, g)
       IN  /\ grid_polygons' = g
           /\ random_polygons' = RandomPolygons(num_polygons)
           /\ buffer_cells' = b
           /\ grid_spacing_x' = sx
           /\ grid_spacing_y' = sy
           /\ grid_y' = b
           /\ grid_x' = b
           /\ IF sy = 0 \/ (b < height - b /\ sx = 0)
              THEN /\ ret' = [shapefile |-> FALSE, count |-> 0]
                   /\ ppc' = "done"
              ELSE /\ ret' = ret
                   /\ ppc' = "grid"
    /\ valid_polygons' = <<>>
    /\ grid_count' = 0
    /\ UNCHANGED <<sampler, num_polygons, polygon_size, cell_size, width, height,
                   data_xmin, grid_candidates, random_count, attempts, max_attempts>>
    /\ UNCHANGED <<secVars, loopVars, fnVars, othVars, obsVars>>

\* Lines 99-126: one grid cell below the quota: jitter, clamp, validity test.
GridCandidate ==
    /\ sampler = "stratified"
    /\ ppc = "grid"
    /\ grid_y < height - buffer_cells
    /\ grid_x < width - buffer_cells
    /\ ~QuotaReached(grid_count, grid_polygons)
    /\ \E jitter_x \in JitterSet(grid_spacing_x), jitter_y \in JitterSet(grid_spacing_y),
          lookup_fails \in BOOLEAN :
          LET final_x == FinalPos(width, buffer_cells, grid_x, jitter_x)
              final_y == FinalPos(height, buffer_cells, grid_y, jitter_y)
              map_x == MapCoord(final_x, cell_size)
              map_y == MapCoord(final_y, cell_size)
              valid == IsValidLocation(map_x, map_y, cell_size, width, height,
                                       data_xmin, lookup_fails)
          IN  /\ IF valid
                 THEN /\ valid_polygons' =
                             Append(valid_polygons,
                                    PolygonRecord("grid_", "grid_based",
                                                  grid_count + 1, map_x, map_y,
                                                  polygon_size))
                      /\ grid_count' = grid_count + 1
                 ELSE UNCHANGED <<valid_polygons, grid_count>>
              /\ all_valid' = (all_valid /\ valid)
              /\ provider_failures' = CountFailure(lookup_fails, provider_failures)
    /\ grid_candidates' = grid_candidates + 1
    /\ grid_x' = grid_x + grid_spacing_x
    /\ UNCHANGED <<sampler, num_polygons, polygon_size, cell_size, width, height,
                   data_xmin, grid_polygons, random_polygons, buffer_cells,
                   grid_spacing_x, grid_spacing_y, grid_y, random_count, attempts,
                   max_attempts, ret, ppc, raised>>
    /\ UNCHANGED <<secVars, loopVars, fnVars, othVars>>

\* Lines 100-101 and 128-129: the quota is reached inside a row; both loops end.
GridQuotaBreak ==
    /\ sampler = "stratified"
    /\ ppc = "grid"
    /\ grid_y < height - buffer_cells
    /\ grid_x < width - buffer_cells
    /\ QuotaReached(grid_count, grid_polygons)
    /\ EnterRandomPass
    /\ UNCHANGED <<sampler, num_polygons, polygon_size, cell_size, width, height,
                   data_xmin, grid_polygons, random_polygons, buffer_cells,
                   grid_spacing_x, grid_spacing_y, grid_y, grid_x, grid_count,
                   grid_candidates, valid_polygons, ret>>
    /\ UNCHANGED <<secVars, loopVars, fnVars, othVars, obsVars>>

\* Lines 99 and 128-129: a row is exhausted; the outer loop ends if the quota
\* is reached and moves to the next row otherwise.
GridRowEnd ==
    /\ sampler = "stratified"
    /\ ppc = "grid"
    /\ grid_y < height - buffer_cells
    /\ ~(grid_x < width - buffer_cells)
    /\ IF QuotaReached(grid_count, grid_polygons)
       THEN /\ EnterRandomPass
            /\ UNCHANGED <<grid_y, grid_x>>
       ELSE /\ grid_y' = grid_y + grid_spacing_y
            /\ grid_x' = buffer_cells
            /\ UNCHANGED <<random_count, attempts, max_attempts, ppc>>
    /\ UNCHANGED <<sampler, num_polygons, polygon_size, cell_size, width, height,
                   data_xmin, grid_polygons, random_polygons, buffer_cells,
                   grid_spacing_x, grid_spacing_y, grid_count, grid_candidates,
                   valid_polygons, ret>>
    /\ UNCHANGED <<secVars, loopVars, fnVars, othVars, obsVars>>

\* Line 98: the outer range is exhausted.
GridEnd ==
    /\ sampler = "stratified"
    /\ ppc = "grid"
    /\ ~(grid_y < height - buffer_cells)
    /\ EnterRandomPass
    /\ UNCHANGED <<sampler, num_polygons, polygon_size, cell_size, width, height,
                   data_xmin, grid_polygons, random_polygons, buffer_cells,
                   grid_spacing_x, grid_spacing_y, grid_y, grid_x, grid_count,
                   grid_candidates, valid_polygons, ret>>
    /\ UNCHANGED <<secVars, loopVars, fnVars, othVars, obsVars>>

\* Lines 139-167: one attempt of the random pass.
RandomAttempt ==
    /\ sampler = "stratified"
    /\ ppc = "random"
    /\ random_count < random_polygons
    /\ attempts < max_attempts
    /\ attempts' = attempts + 1
    /\ \E kx \in 0..(RandomDraws - 1), ky \in 0..(RandomDraws - 1),
          lookup_fails \in BOOLEAN :
          LET rand_x == RandomCoord(kx, buffer_cells, width, cell_size)
              rand_y == RandomCoord(ky, buffer_cells, height, cell_size)
              too_close == TooClose(rand_x, rand_y, polygon_size, valid_polygons)
              valid == IsValidLocation(rand_x, rand_y, cell_size, width, height,
                                       data_xmin, lookup_fails)
          IN  /\ IF ~too_close /\ valid
                 THEN /\ valid_polygons' =
                             Append(valid_polygons,
                                    PolygonRecord("rand_", "random",
                                                  random_count + 1, rand_x, rand_y,
                                                  polygon_size))
                      /\ random_count' = random_count + 1
                 ELSE UNCHANGED <<valid_polygons, random_count>>
              \* "not too_close and is_valid_location(...)": no lookup is made
              \* for a candidate that is too close.
              /\ all_valid' = (all_valid /\ (too_close \/ valid))
              /\ provider_failures' =
                     IF too_close THEN provider_failures
                     ELSE CountFailure(lookup_fails, provider_failures)
    /\ UNCHANGED <<sampler, num_polygons, polygon_size, cell_size, width, height,
                   data_xmin, grid_polygons, random_polygons, buffer_cells,
                   grid_spacing_x, grid_spacing_y, grid_y, grid_x, grid_count,
                   grid_candidates, max_attempts, ret, ppc, raised>>
    /\ UNCHANGED <<secVars, loopVars, fnVars, othVars>>

\* Lines 226-245: generate_training_statistics divides by the total number of
\* rows, which raises ZeroDivisionError when the shapefile is empty.
StatisticsRaise(polys) == Len(polys) = 0

\* Lines 139 and 169-203: the loop condition is false; the polygons are
\* inserted, the statistics printed and (output_shapefile, count) returned, or
\* (None, 0) from the handler at line 201 when the statistics raise.
FinishStratified ==
    /\ sampler = "stratified"
    /\ ppc = "random"
    /\ ~(random_count < random_polygons /\ attempts < max_attempts)
    /\ ret' = IF StatisticsRaise(valid_polygons)
              THEN [shapefile |-> FALSE, count |-> 0]
              ELSE [shapefile |-> TRUE, count |-> Len(valid_polygons)]
    /\ ppc' = "done"
    /\ UNCHANGED <<sampler, num_polygons, polygon_size, cell_size, width, height,
                   data_xmin, grid_polygons, random_polygons, buffer_cells,
                   grid_spacing_x, grid_spacing_y, grid_y, grid_x, grid_count,
                   grid_candidates, random_count, attempts, max_attempts,
                   valid_polygons>>
    /\ UNCHANGED <<secVars, loopVars, fnVars, othVars, obsVars>>

(***************************************************************************)
(* The random-polygon loops of create_random_polygons_in_sections.py       *)
(* (sampler "sections") and create_random_polygons_in_irregular_sections.py*)
(* (sampler "irregular"), for one section.                                 *)
(*                                                                         *)
(* Geometry is kept on a lattice of unit cells, one unit being the base    *)
(* radius of a polygon: a region or polygon is the set of cells it covers, *)
(* contains / overlaps / intersect are the set relations of the geometry   *)
(* library.                                                                *)
(***************************************************************************)
MaxRandomPolygons == 1

LoopCells == (0..5) \X (0..4)

\* A rectangular section and an L-shaped one with the same bounding box.
SectionPolygons ==
    { LoopCells,
      { c \in LoopCells : ~(c[1] >= 3 /\ c[2] >= 2) } }

\* A mask without polygon or without overlap with the imagery (sections lines
\* 134 and 141), a section shapefile without polygon (irregular line 95).
EmptyRegion == {}

\* section_polygon.extent / overlap_area.extent
ExtentOf(region) ==
    [XMin |-> CHOOSE v \in { c[1] : c \in region } : \A c \in region : v <= c[1],
     XMax |-> 1 + CHOOSE v \in { c[1] : c \in region } : \A c \in region : v >= c[1],
     YMin |-> CHOOSE v \in { c[2] : c \in region } : \A c \in region : v <= c[2],
     YMax |-> 1 + CHOOSE v \in { c[2] : c \in region } : \A c \in region : v >= c[2]]

\* sections line 171, irregular line 125.
AttemptFactor(s) == IF s = "sections" THEN 20 ELSE 15

\* sections lines 181-182 (polygon_size), irregular line 132 (polygon_radius * 2).
EdgeBuffer(s, ps) == IF s = "sections" THEN ps ELSE ps * 2

\* random.uniform(lo + buffer, hi - buffer): the cells a drawn coordinate can
\* fall in; uniform(a, b) with a > b draws from [b, a].
UniformCells(lo, hi) ==
    IF lo < hi THEN lo..(hi - 1) ELSE hi..lo

\* sections lines 47-76: the clipped sample has a minimum value; any failure of
\* the clip or of the property lookup is swallowed and answered False.
CheckPolygonInImageryData(has_data, lookup_fails) ==
    IF lookup_fails THEN FALSE ELSE has_data

\* create_random_irregular_polygon (lines 14-45 of both scripts): the cells
\* covered by a polygon around the centre cell; reach 0 or 1 stands for the
\* radius_variation drawn per vertex.
IrregularPolygon(cx, cy, reach) ==
    { c \in ((cx - reach)..(cx + reach)) \X ((cy - reach)..(cy + reach)) : TRUE }

Contains(region, poly) == poly \subseteq region

Overlaps(region, poly) ==
    /\ region \cap poly # {}
    /\ ~(poly \subseteq region)
    /\ ~(region \subseteq poly)

Intersect(region, poly) == region \cap poly

\* irregular lines 139-148: the polygon kept for a candidate, {} when skipped.
FinalPolygon(region, poly) ==
    IF Contains(region, poly) THEN poly
    ELSE IF Overlaps(region, poly) THEN Intersect(region, poly)
    ELSE {}

\* sections lines 187-192.
ClippedPolygon(region, poly) ==
    IF Contains(region, poly) \/ Overlaps(region, poly)
    THEN Intersect(region, poly)
    ELSE {}

InitLoops ==
    /\ SectionsIdle
    /\ FunctionsIdle
    /\ OthersIdle
    /\ sampler \in {"sections", "irregular"}
    /\ num_random_polygons \in 0..MaxRandomPolygons
    /\ polygon_size = 1
    /\ section_polygon \in SectionPolygons \cup {EmptyRegion}
    /\ successful_polygons = 0
    /\ inserted = <<>>
    /\ attempts = 0
    /\ max_attempts = 0
    /\ ret = "none"
    /\ ppc = "start"
    /\ raised = "none"
    /\ all_valid = TRUE
    /\ provider_failures = 0
    /\ num_polygons = 0
    /\ cell_size = 0
    /\ width = 0
    /\ height = 0
    /\ data_xmin = 0
    /\ grid_polygons = 0
    /\ random_polygons = 0
    /\ buffer_cells = 0
    /\ grid_spacing_x = 0
    /\ grid_spacing_y = 0
    /\ grid_y = 0
    /\ grid_x = 0
    /\ grid_count = 0
    /\ grid_candidates = 0
    /\ random_count = 0
    /\ valid_polygons = <<>>

stratVars == <<num_polygons, cell_size, width, height, data_xmin, grid_polygons,
               random_polygons, buffer_cells, grid_spacing_x, grid_spacing_y,
               grid_y, grid_x, grid_count, grid_candidates, random_count,
               valid_polygons>>

\* sections lines 169-171, irregular lines 123-125.
StartLoop ==
    /\ sampler \in {"sections", "irregular"}
    /\ ppc = "start"
    /\ section_polygon # EmptyRegion
    /\ successful_polygons' = 0
    /\ attempts' = 0
    /\ max_attempts' = num_random_polygons * AttemptFactor(sampler)
    /\ ppc' = "loop"
    /\ UNCHANGED <<sampler, polygon_size, num_random_polygons, section_polygon,
                   inserted, ret, stratVars, secVars, fnVars, othVars,
                   obsVars>>

\* sections lines 177-219: one attempt; the data check of lines 47-76 answers
\* False on NoData and on any failure of the clip.
SectionsAttempt ==
    /\ sampler = "sections"
    /\ ppc = "loop"
    /\ successful_polygons < num_random_polygons
    /\ attempts < max_attempts
    /\ attempts' = attempts + 1
    /\ LET e == ExtentOf(section_polygon)
           b == EdgeBuffer(sampler, polygon_size)
       IN  \E cx \in UniformCells(e.XMin + b, e.XMax - b),
              cy \in UniformCells(e.YMin + b, e.YMax - b),
              reach \in {0, 1}, data \in BOOLEAN, lookup_fails \in BOOLEAN :
              LET random_polygon == IrregularPolygon(cx, cy, reach)
                  clipped_polygon == ClippedPolygon(section_polygon, random_polygon)
                  has_data == CheckPolygonInImageryData(data, lookup_fails)
              IN  /\ IF clipped_polygon # {} /\ has_data
                     THEN /\ successful_polygons' = successful_polygons + 1
                          /\ inserted' =
                                 Append(inserted,
                                        [polygon_id |-> successful_polygons + 1,
                                         geometry |-> clipped_polygon])
                     ELSE UNCHANGED <<successful_polygons, inserted>>
                  \* The data check runs only on a non-empty clipped polygon.
                  /\ all_valid' = (all_valid /\ (clipped_polygon = {} \/ has_data))
                  /\ provider_failures' =
                         IF clipped_polygon = {} THEN provider_failures
                         ELSE CountFailure(lookup_fails, provider_failures)
    /\ UNCHANGED <<sampler, polygon_size, num_random_polygons, section_polygon,
                   max_attempts, ret, ppc, raised, stratVars, secVars, fnVars, othVars>>

\* irregular lines 128-166: one attempt.
IrregularAttempt ==
    /\ sampler = "irregular"
    /\ ppc = "loop"
    /\ successful_polygons < num_random_polygons
    /\ attempts < max_attempts
    /\ attempts' = attempts + 1
    /\ LET e == ExtentOf(section_polygon)
           b == EdgeBuffer(sampler, polygon_size)
       IN  \E cx \in UniformCells(e.XMin + b, e.XMax - b),
              cy \in UniformCells(e.YMin + b, e.YMax - b),
              reach \in {0, 1} :
              LET random_polygon == IrregularPolygon(cx, cy, reach)
                  final_polygon == FinalPolygon(section_polygon, random_polygon)
              IN  IF final_polygon # {}
                  THEN /\ successful_polygons' = successful_polygons + 1
                       /\ inserted' = Append(inserted,
                                             [polygon_id |-> successful_polygons + 1,
                                              geometry |-> final_polygon])
                  ELSE UNCHANGED <<successful_polygons, inserted>>
    /\ UNCHANGED <<sampler, polygon_size, num_random_polygons, section_polygon,
                   max_attempts, ret, ppc, stratVars, secVars, fnVars, othVars,
                   obsVars>>

\* sections lines 221-227, irregular lines 168-175: the loop condition is
\* false; the cursor is closed and the count of polygons created is reported.
FinishLoop ==
    /\ sampler \in {"sections", "irregular"}
    /\ ppc = "loop"
    /\ ~(successful_polygons < num_random_polygons /\ attempts < max_attempts)
    /\ ret' = [shapefile |-> TRUE, count |-> successful_polygons]
    /\ ppc' = "done"
    /\ UNCHANGED <<sampler, polygon_size, num_random_polygons, section_polygon,
                   successful_polygons, inserted, attempts, max_attempts,
                   stratVars, secVars, fnVars, othVars,
                   obsVars>>

\* sections lines 134, 141 and 229-232, irregular lines 95 and 176-177: the
\* region is empty; a warning line is printed, nothing is sampled or written
\* and the script goes on to the next mask or section.
SkipEmptyRegion ==
    /\ sampler \in {"sections", "irregular"}
    /\ ppc = "start"
    /\ section_polygon = EmptyRegion
    /\ ret' = [shapefile |-> FALSE, count |-> 0]
    /\ ppc' = "done"
    /\ UNCHANGED <<sampler, polygon_size, num_random_polygons, section_polygon,
                   successful_polygons, inserted, attempts, max_attempts,
                   stratVars, secVars, fnVars, othVars, obsVars>>

InitSamplers == InitStratified \/ InitLoops

NextSamplers ==
    \/ StartStratified
    \/ GridCandidate
    \/ GridQuotaBreak
    \/ GridRowEnd
    \/ GridEnd
    \/ RandomAttempt
    \/ FinishStratified
    \/ StartLoop
    \/ SkipEmptyRegion
    \/ SectionsAttempt
    \/ IrregularAttempt
    \/ FinishLoop

SpecSamplers == InitSamplers /\ [][NextSamplers]_vars

(***************************************************************************)
(* Functions evaluated on their own: the jitter of the grid pass, the      *)
(* coordinate of a random candidate's centre and                           *)
(* create_random_irregular_polygon.                                        *)
(***************************************************************************)
MaxSpacing == 24

\* The extents a centre is drawn for: corner and length of one axis.
Corners == {0, 100}

AxisLengths == {1, 4, 12, 22, 40}

CenterPolygonSizes == {1, 2, 12}

\* random.uniform(a, b) = a + (b - a) * random.random(), scaled by RandomDraws,
\* for random.random() = k / RandomDraws.
Uniform(a, b, k) == a * RandomDraws + (b - a) * k

\* One coordinate of a random candidate's centre, scaled by RandomDraws:
\* lines 58 and 143-144 of generate_stratified_polygons, sections lines
\* 181-182, irregular lines 132-134.  ps is the polygon size for the first
\* two and the polygon radius for the irregular script.
CenterCoord(s, lo, hi, ps, cs, k) ==
    IF s = "stratified"
    THEN lo * RandomDraws + RandomCoord(k, BufferCells(ps, cs), (hi - lo) \div cs, cs)
    ELSE Uniform(lo + EdgeBuffer(s, ps), hi - EdgeBuffer(s, ps), k)

\* The size of a polygon: polygon_size, or polygon_diameter = 2 x
\* polygon_radius in the irregular script (irregular lines 10-11).
PolygonExtent(s, ps) == IF s = "irregular" THEN 2 * ps ELSE ps

\* 2 * math.pi in microradians (line 20 of both scripts).
TwoPiMicro == 6283185

\* Line 20.
AngleStep(k) == TwoPiMicro \div k

\* Line 17: random.randint(6, 12) in the sections script, (8, 15) in the
\* irregular one.
VertexCounts(script) == IF script = "sections" THEN 6..12 ELSE 8..15

\* Line 27: the ends of random.uniform(-0.26, 0.26), of (-0.35, 0.35) in the
\* irregular script, in microradians.
AngleVariations(script) ==
    IF script = "sections" THEN {-260000, 260000} ELSE {-350000, 350000}

\* Line 31: radius_variation, in thousandths; 1.0 lies in both scripts' range.
RadiusVariations(script) == {1000}

\* Lines 28-39: a vertex, kept in polar form around the centre.
Vertex(i, k, angle_variation, radius_variation) ==
    [angle |-> i * AngleStep(k) + angle_variation, radius |-> radius_variation]

(***************************************************************************)
(* Python floats.  A float is <<m, e>>, standing for m * 2^e, with m = 0   *)
(* or 2^(Precision-1) <= m < 2^Precision; every operation returns the      *)
(* float nearest to the exact result, ties to the even mantissa, as IEEE   *)
(* 754 arithmetic does.  Python's float has 53 bits of precision; the      *)
(* model keeps the rounding rule and carries Precision bits.               *)
(***************************************************************************)
Precision == 6

\* Guard bits kept by a division before it is rounded.
GuardBits == 8

RECURSIVE Pow2(_)
Pow2(n) == IF n = 0 THEN 1 ELSE 2 * Pow2(n - 1)

RECURSIVE BitLength(_)
BitLength(n) == IF n = 0 THEN 0 ELSE 1 + BitLength(n \div 2)

\* The float nearest to n * 2^e, for a natural number n.
FloatRound(n, e) ==
    IF n = 0 THEN <<0, 0>>
    ELSE IF BitLength(n) <= Precision
    THEN <<n * Pow2(Precision - BitLength(n)), e - (Precision - BitLength(n))>>
    ELSE LET s == BitLength(n) - Precision
             q == n \div Pow2(s)
             r == n % Pow2(s)
             half == Pow2(s - 1)
             up == IF r > half \/ (r = half /\ q % 2 = 1) THEN q + 1 ELSE q
         IN  IF up = Pow2(Precision) THEN <<up \div 2, e + s + 1>> ELSE <<up, e + s>>

\* a + b and a - b (for a >= b) of two floats.
FloatAdd(a, b) ==
    IF a[1] = 0 THEN b
    ELSE IF b[1] = 0 THEN a
    ELSE LET lo == Min(a[2], b[2])
         IN  FloatRound(a[1] * Pow2(a[2] - lo) + b[1] * Pow2(b[2] - lo), lo)

FloatSub(a, b) ==
    IF b[1] = 0 THEN a
    ELSE LET lo == Min(a[2], b[2])
         IN  FloatRound(a[1] * Pow2(a[2] - lo) - b[1] * Pow2(b[2] - lo), lo)

\* a / c and k * a for a float a and a Python int: the int converts exactly.
FloatDiv(a, c) ==
    IF a[1] = 0 THEN <<0, 0>>
    ELSE LET n == (a[1] * Pow2(GuardBits)) \div c
             sticky == IF (a[1] * Pow2(GuardBits)) % c = 0 THEN 0 ELSE 1
         IN  FloatRound(2 * n + sticky, a[2] - GuardBits - 1)

FloatMul(k, a) == FloatRound(k * a[1], a[2])

\* a <= b and a = b as numbers.
FloatLeq(a, b) ==
    LET lo == Min(a[2], b[2])
    IN  a[1] * Pow2(a[2] - lo) <= b[1] * Pow2(b[2] - lo)

FloatEq(a, b) == FloatLeq(a, b) /\ FloatLeq(b, a)

\* The floats an extent's XMin and XMax are drawn from: 0.0 and 1.0, and
\* every float of [2^(Precision-1), 2^Precision).
FloatXMins == {<<0, 0>>, <<Pow2(Precision - 1), 1 - Precision>>}

FloatXMaxs == { <<m, 0>> : m \in Pow2(Precision - 1)..(Pow2(Precision) - 1) }

\* The column counts create_geographic_sections chooses (lines 64-71).
LayoutCols == {2, 3, 4}

\* Lines 84, 86, 101-102 of create_geographic_sections in float arithmetic:
\* the x bounds of the cells of column col.
FloatSectionBounds(XMin, XMax, ncols, c) ==
    LET total_width == FloatSub(XMax, XMin)
        section_width == FloatDiv(total_width, ncols)
    IN  [xmin |-> FloatAdd(XMin, FloatMul(c, section_width)),
         xmax |-> FloatAdd(XMin, FloatMul(c + 1, section_width))]

(***************************************************************************)
(* calculate_optimal_polygons.  The area is given in tenths of a square    *)
(* kilometre, so that int(area_sqkm * 40) is area_tenths * 4.              *)
(***************************************************************************)
AreasTenths == {0, 1, 5, 13, 25, 50, 80}

ClassCounts == 1..7

PolygonLimits == {50, 150, 300}

\* Line 22: max(min_polygons, min(max_polygons, adjusted_polygons)).
ClampPolygonsBug(adjusted_polygons, min_polygons, max_polygons) ==
    adjusted_polygons

ClampPolygons(adjusted_polygons, min_polygons, max_polygons) ==
    Max(min_polygons, Min(max_polygons, adjusted_polygons))

\* Lines 15-24.
CalculateOptimalPolygons(area_tenths, land_cover_classes, min_polygons, max_polygons) ==
    LET base_polygons == (area_tenths * 40) \div 10
        adjusted_polygons == (base_polygons * land_cover_classes) \div 5
    IN  ClampPolygons(adjusted_polygons, min_polygons, max_polygons)

(***************************************************************************)
(* The tile rectangles of script0721.py.  center_x = (xmin + xmax) / 2 and *)
(* the offsets (col - half_grid + 0.5) * tile_size are halves of integers, *)
(* so every coordinate is kept doubled: xsum = xmin + xmax = 2 * center_x. *)
(***************************************************************************)
grid_size == 8

half_grid == grid_size \div 2

\* tile_size: 100, or the fallback 50 of line 107.
CenteredTileSizes == {50, 100}

\* xmin + xmax and ymin + ymax of the layers.
ExtentSums == {0, 1000, 3001}

\* Lines 128-129, doubled.
Offset2(i, ts) == (2 * (i - half_grid) + 1) * ts

\* Lines 124-138: the rectangle of the tile of (row, col), doubled.
CenteredTile(xsum, ysum, ts, r, c) ==
    LET x0 == xsum + Offset2(c, ts)
        y0 == ysum + Offset2(r, ts)
    IN  [x0 |-> x0, x1 |-> x0 + 2 * ts, y0 |-> y0, y1 |-> y0 + 2 * ts,
         row |-> r, col |-> c]

\* Lines 125-138: rows outside, columns inside.
CenteredTiles(xsum, ysum, ts) ==
    [k \in 1..(grid_size * grid_size) |->
        CenteredTile(xsum, ysum, ts, (k - 1) \div grid_size, (k - 1) % grid_size)]

(***************************************************************************)
(* clean_tiles_for_mosaic: the decision taken for one tile.  A tile has    *)
(* pixel_count pixels of which nodata_pixels hold the NoData value; the    *)
(* data values differ from the NoData value, and the raster's minimum and  *)
(* maximum are taken over all pixels.  Ratios are in percent.              *)
(***************************************************************************)
PixelCounts == {4}

NodataThresholds == {0, 5, 10, 30, 50, 100}

\* Lines 55-68: the ratio the code works with; 100 stands for the branch
\* that rejects an entirely empty tile.
EstimatedNodataRatio(nodata_pixels, pixel_count) ==
    IF nodata_pixels = pixel_count THEN 100       \* min = max = nodata
    ELSE IF nodata_pixels > 0 THEN 10             \* min = nodata
    ELSE 0

\* Lines 39-103: "copied" when the tile is copied and appended to good_tiles,
\* "rejected" when it is appended to rejected_tiles.
CleanTile(nodata_pixels, pixel_count, nodata_threshold, load_raises, statistics_raise) ==
    IF load_raises THEN "rejected"                        \* lines 101-103
    ELSE IF statistics_raise THEN "copied"                \* lines 92-99
    ELSE IF nodata_pixels = pixel_count THEN "rejected"   \* lines 55-59
    ELSE IF EstimatedNodataRatio(nodata_pixels, pixel_count) <= nodata_threshold
         THEN "copied"                                    \* lines 72-87
         ELSE "rejected"                                  \* lines 88-90

InitFunctions ==
    /\ SectionsIdle
    /\ SamplerIdle
    /\ OthersIdle
    /\ out = <<>>
    /\ num_vertices = 0
    /\ vertices = <<>>
    /\ \/ /\ fn = "jitter"
          /\ arg \in [spacing : 0..MaxSpacing]
       \/ /\ fn = "center"
          /\ arg \in [sampler : {"stratified", "sections", "irregular"},
                      lo : Corners, length : AxisLengths,
                      polygon_size : CenterPolygonSizes, cell_size : CellSizes]
       \/ /\ fn = "create_random_irregular_polygon"
          /\ arg \in [script : {"sections", "irregular"}]
       \/ /\ fn = "calculate_optimal_polygons"
          /\ arg \in [area_tenths : AreasTenths, land_cover_classes : ClassCounts,
                      min_polygons : PolygonLimits, max_polygons : PolygonLimits]
       \/ /\ fn = "script0721"
          /\ arg \in [xsum : ExtentSums, ysum : ExtentSums, tile_size : CenteredTileSizes]
       \/ /\ fn = "clean_tiles_for_mosaic"
          /\ arg \in { a \in [pixel_count : PixelCounts, nodata_pixels : 0..4,
                              nodata_threshold : NodataThresholds,
                              load_raises : BOOLEAN, statistics_raise : BOOLEAN] :
                         a.nodata_pixels <= a.pixel_count }
       \/ /\ fn = "section_bounds"
          /\ arg \in [XMin : FloatXMins, XMax : FloatXMaxs, cols : LayoutCols]

\* Lines 104-105 of generate_stratified_polygons.
DrawJitter ==
    /\ fn = "jitter"
    /\ out = <<>>
    /\ \E jitter \in JitterSet(arg.spacing) : out' = <<jitter>>
    /\ UNCHANGED <<fn, arg, num_vertices, vertices, secVars, smpVars, othVars>>

\* The draw of one coordinate of a candidate's centre.
DrawCenter ==
    /\ fn = "center"
    /\ out = <<>>
    /\ \E k \in 0..(RandomDraws - 1) :
          out' = <<CenterCoord(arg.sampler, arg.lo, arg.lo + arg.length,
                               arg.polygon_size, arg.cell_size, k)>>
    /\ UNCHANGED <<fn, arg, num_vertices, vertices, secVars, smpVars, othVars>>

\* Lines 17-20.
DrawVertexCount ==
    /\ fn = "create_random_irregular_polygon"
    /\ num_vertices = 0
    /\ \E k \in VertexCounts(arg.script) : num_vertices' = k
    /\ vertices' = <<>>
    /\ UNCHANGED <<fn, arg, out, secVars, smpVars, othVars>>

\* Lines 22-39: one pass of the loop, i = len(vertices).
AddVertex ==
    /\ fn = "create_random_irregular_polygon"
    /\ num_vertices > 0
    /\ out = <<>>
    /\ Len(vertices) < num_vertices
    /\ \E angle_variation \in AngleVariations(arg.script),
          radius_variation \in RadiusVariations(arg.script) :
          vertices' = Append(vertices,
                             Vertex(Len(vertices), num_vertices, angle_variation,
                                    radius_variation))
    /\ UNCHANGED <<fn, arg, out, num_vertices, secVars, smpVars, othVars>>

\* Lines 41-45: the first vertex is appended and the polygon returned.
CloseRing ==
    /\ fn = "create_random_irregular_polygon"
    /\ num_vertices > 0
    /\ out = <<>>
    /\ Len(vertices) = num_vertices
    /\ vertices' = Append(vertices, vertices[1])
    /\ out' = vertices'
    /\ UNCHANGED <<fn, arg, num_vertices, secVars, smpVars, othVars>>

\* Lines 95-104: the loop body computes the bounds of a cell of column col.
ComputeSectionBounds ==
    /\ fn = "section_bounds"
    /\ out = <<>>
    /\ \E c \in 0..(arg.cols - 1) :
          out' = <<c, FloatSectionBounds(arg.XMin, arg.XMax, arg.cols, c)>>
    /\ UNCHANGED <<fn, arg, num_vertices, vertices, secVars, smpVars, othVars>>

\* calculate_optimal_polygons returns (line 26).
ReturnOptimalPolygons ==
    /\ fn = "calculate_optimal_polygons"
    /\ out = <<>>
    /\ out' = <<CalculateOptimalPolygons(arg.area_tenths, arg.land_cover_classes,
                                         arg.min_polygons, arg.max_polygons)>>
    /\ UNCHANGED <<fn, arg, num_vertices, vertices, secVars, smpVars, othVars>>

\* Lines 111-138 of script0721.py: the 64 rectangles are computed.
ComputeCenteredTiles ==
    /\ fn = "script0721"
    /\ out = <<>>
    /\ out' = <<CenteredTiles(arg.xsum, arg.ysum, arg.tile_size)>>
    /\ UNCHANGED <<fn, arg, num_vertices, vertices, secVars, smpVars, othVars>>

\* Lines 35-103 of clean_tiles_for_mosaic: one pass of the loop.
CleanOneTile ==
    /\ fn = "clean_tiles_for_mosaic"
    /\ out = <<>>
    /\ out' = <<CleanTile(arg.nodata_pixels, arg.pixel_count, arg.nodata_threshold,
                          arg.load_raises, arg.statistics_raise)>>
    /\ UNCHANGED <<fn, arg, num_vertices, vertices, secVars, smpVars, othVars>>

NextFunctions ==
    \/ DrawJitter
    \/ DrawCenter
    \/ DrawVertexCount
    \/ AddVertex
    \/ CloseRing
    \/ ComputeSectionBounds
    \/ ReturnOptimalPolygons
    \/ ComputeCenteredTiles
    \/ CleanOneTile

SpecFunctions == InitFunctions /\ [][NextFunctions]_vars

(***************************************************************************)
(* The batch tiling scripts: script_full_extent_tiles.py ("full_extent")   *)
(* and script_large_data_strategy.py ("large_data").  A script generates   *)
(* the tile grid over the layer's extent and clips the tiles batch by      *)
(* batch, each tile with up to max_retries attempts.  Whether a Clip call  *)
(* succeeds is the server's choice.                                        *)
(***************************************************************************)
max_retries == 3

batch_size == 2

TileSizes == {10}

TileOrigins == {0, 5}

TileLengths == {5, 10, 15}

LayerExtents ==
    { [xmin |-> o, ymin |-> o, xmax |-> o + w, ymax |-> o + h] :
        o \in TileOrigins, w \in TileLengths, h \in TileLengths }

\* Lines 115-116: int(extent_width / tile_size) + 1.
TilesAlong(length, ts) == length \div ts + 1

\* Lines 147-152: the tuple appended for (row, col) of the loops.
TileAt(e, ts, r, c) ==
    LET x0 == e.xmin + c * ts
        y0 == e.ymin + r * ts
    IN  [x0 |-> x0, y0 |-> y0,
         x1 |-> Min(x0 + ts, e.xmax), y1 |-> Min(y0 + ts, e.ymax),
         row |-> r + 1, col |-> c + 1]

\* Lines 143-152: rows outside, columns inside.
TileExtents(e, ts) ==
    LET tx == TilesAlong(e.xmax - e.xmin, ts)
        ty == TilesAlong(e.ymax - e.ymin, ts)
    IN  [k \in 1..(tx * ty) |-> TileAt(e, ts, (k - 1) \div tx, (k - 1) % tx)]

\* Lines 164-165: batch_tiles = tile_extents[batch_start:batch_end].
BatchTiles ==
    SubSeq(tile_extents, batch_start + 1,
           Min(batch_start + batch_size, Len(tile_extents)))

\* Line 167.
BatchNum == batch_start \div batch_size + 1

TileNumberBug == batch_start + idx

\* The number a tile is logged under: global_idx of line 173, global_idx + 1
\* of lines 125 and 156 in script_large_data_strategy.py.
TileNumber == batch_start + idx + 1

\* Line 203: the attempt that failed was the last one.
IsLastAttemptBug(a) == a >= 0

IsLastAttempt(a) == ~(a < max_retries - 1)

InitTiling ==
    /\ SectionsIdle
    /\ SamplerIdle
    /\ FunctionsIdle
    /\ WorkflowIdle
    /\ tile_script \in {"full_extent", "large_data"}
    /\ layer_extent \in LayerExtents
    /\ tile_size \in TileSizes
    /\ tiles_x = 0
    /\ tiles_y = 0
    /\ tile_extents = <<>>
    /\ batch_start = 0
    /\ idx = 0
    /\ attempt = 0
    /\ processed_count = 0
    /\ failed_count = 0
    /\ failed_tiles = <<>>
    /\ failed_tiles_file = <<>>
    /\ clip_log = <<>>
    /\ tpc = "grid"

\* Lines 110-161: the grid is computed and the counters are initialised.
GenerateTiles ==
    /\ tpc = "grid"
    /\ tiles_x' = TilesAlong(layer_extent.xmax - layer_extent.xmin, tile_size)
    /\ tiles_y' = TilesAlong(layer_extent.ymax - layer_extent.ymin, tile_size)
    /\ tile_extents' = TileExtents(layer_extent, tile_size)
    /\ tpc' = "batches"
    /\ UNCHANGED <<tile_script, layer_extent, tile_size, batch_start, idx, attempt,
                   processed_count, failed_count, failed_tiles, failed_tiles_file,
                   clip_log, secVars, smpVars, fnVars, wfVars>>

\* Lines 163-172: the batch loop takes its next batch.
StartBatch ==
    /\ tpc = "batches"
    /\ batch_start < Len(tile_extents)
    /\ idx' = 0
    /\ attempt' = 0
    /\ tpc' = "tiles"
    /\ UNCHANGED <<tile_script, layer_extent, tile_size, tiles_x, tiles_y,
                   tile_extents, batch_start, processed_count, failed_count,
                   failed_tiles, failed_tiles_file, clip_log, secVars, smpVars,
                   fnVars, wfVars>>

\* Lines 189-201: the Clip call returns; the retry loop is left.
ClipSucceeds ==
    /\ tpc = "tiles"
    /\ idx < Len(BatchTiles)
    /\ clip_log' = Append(clip_log, [tile |-> TileNumber, batch |-> BatchNum,
                                     attempt |-> attempt, ok |-> TRUE])
    /\ processed_count' = processed_count + 1
    /\ idx' = idx + 1
    /\ attempt' = 0
    /\ UNCHANGED <<tile_script, layer_extent, tile_size, tiles_x, tiles_y,
                   tile_extents, batch_start, failed_count, failed_tiles,
                   failed_tiles_file, tpc, secVars, smpVars, fnVars, wfVars>>

\* Lines 202-210 (150-161 of script_large_data_strategy.py): the Clip call
\* raises; the loop retries, or records the tile after the last attempt.
ClipFails ==
    /\ tpc = "tiles"
    /\ idx < Len(BatchTiles)
    /\ clip_log' = Append(clip_log, [tile |-> TileNumber, batch |-> BatchNum,
                                     attempt |-> attempt, ok |-> FALSE])
    /\ IF IsLastAttempt(attempt)
       THEN /\ failed_count' = IF tile_script = "full_extent"
                               THEN failed_count + 1 ELSE failed_count
            /\ failed_tiles' = Append(failed_tiles, TileNumber)
            /\ failed_tiles_file' = Append(failed_tiles_file, TileNumber)
            /\ idx' = idx + 1
            /\ attempt' = 0
       ELSE /\ attempt' = attempt + 1
            /\ UNCHANGED <<failed_count, failed_tiles, failed_tiles_file, idx>>
    /\ UNCHANGED <<tile_script, layer_extent, tile_size, tiles_x, tiles_y,
                   tile_extents, batch_start, processed_count, tpc, secVars,
                   smpVars, fnVars, wfVars>>

\* Lines 172 and 163: batch_tiles is exhausted; range() steps by batch_size.
EndBatch ==
    /\ tpc = "tiles"
    /\ idx = Len(BatchTiles)
    /\ batch_start' = batch_start + batch_size
    /\ tpc' = "batches"
    /\ UNCHANGED <<tile_script, layer_extent, tile_size, tiles_x, tiles_y,
                   tile_extents, idx, attempt, processed_count, failed_count,
                   failed_tiles, failed_tiles_file, clip_log, secVars, smpVars,
                   fnVars, wfVars>>

\* Lines 216-224: the batch loop is over and the summary is logged.
FinishTiling ==
    /\ tpc = "batches"
    /\ batch_start >= Len(tile_extents)
    /\ tpc' = "done"
    /\ UNCHANGED <<tile_script, layer_extent, tile_size, tiles_x, tiles_y,
                   tile_extents, batch_start, idx, attempt, processed_count,
                   failed_count, failed_tiles, failed_tiles_file, clip_log,
                   secVars, smpVars, fnVars, wfVars>>

NextTiling ==
    \/ GenerateTiles
    \/ StartBatch
    \/ ClipSucceeds
    \/ ClipFails
    \/ EndBatch
    \/ FinishTiling

SpecTiling == InitTiling /\ [][NextTiling]_vars

(***************************************************************************)
(* main_workflow of waterloo_classification_workflow.py, from Step 1 on:   *)
(* the data source and the project folder have been chosen.  The answers   *)
(* typed by the user and the results of the called functions are drawn;    *)
(* an error that main_workflow does not catch ends it and reaches the      *)
(* handler of the __main__ block.                                          *)
(***************************************************************************)
\* Answers to "Use existing boundary? (y/n)", lowered and stripped.
Answers == {"y", "n", "yes"}

\* What a function that creates a file returns: its path, or None.
PathOrNone == {"path", "None"}

\* Lines 216-217: the team sizes the prompt accepts.
TeamSizes == 2..10

\* Lines 258-267.
SizeChoices == 1..3

\* Line 270 of generate_training_polygons_optimized.py: the parameters of
\* process_all_sections, none of which has a default.
ProcessAllSectionsParameters == {"sections_folder", "output_folder"}

\* Lines 274-281: the keywords main_workflow passes.
TrainingCallKeywords ==
    {"sections_shapefile", "imagery_source", "output_folder", "polygon_size",
     "min_polygons", "max_polygons"}

\* Python binds a call when every keyword names a parameter and every
\* parameter without a default is given; otherwise the call raises TypeError.
CallBinds(parameters, required, keywords) ==
    keywords \subseteq parameters /\ required \subseteq keywords

\* os.path.exists(path): raises TypeError for None (line 193).
PathExistsRaises(path) == path = "None"

InitWorkflow ==
    /\ SectionsIdle
    /\ SamplerIdle
    /\ FunctionsIdle
    /\ TilingIdle
    /\ wpc = "step1"
    /\ boundary_on_disk \in BOOLEAN
    /\ boundary_file = "path"
    /\ use_existing = ""
    /\ mask_calls = <<>>
    /\ sections_shp = "None"
    /\ num_people = 0
    /\ size_choice = 0
    /\ training_results = "unset"
    /\ reached = <<>>
    /\ wf_raised = "none"

\* Lines 180-191: Step 1 begins; the user is asked when the file exists.
AskUseExisting ==
    /\ wpc = "step1"
    /\ reached' = Append(reached, "step1")
    /\ IF boundary_on_disk
       THEN \E answer \in Answers :
               /\ use_existing' = answer
               /\ boundary_file' = IF answer # "y" THEN "None" ELSE boundary_file
       ELSE UNCHANGED <<use_existing, boundary_file>>
    /\ wpc' = "boundary"
    /\ UNCHANGED <<boundary_on_disk, mask_calls, sections_shp, num_people,
                   size_choice, training_results, wf_raised, secVars, smpVars,
                   fnVars, tilVars>>

\* Lines 193-206: the mask is created unless the boundary file exists.
EnsureBoundary ==
    /\ wpc = "boundary"
    /\ IF PathExistsRaises(boundary_file)
       THEN /\ wf_raised' = "TypeError"
            /\ wpc' = "raised"
            /\ UNCHANGED <<boundary_on_disk, boundary_file, mask_calls>>
       ELSE IF boundary_on_disk
       THEN /\ wpc' = "step2"
            /\ UNCHANGED <<boundary_on_disk, boundary_file, mask_calls, wf_raised>>
       ELSE \E result \in PathOrNone :
               /\ mask_calls' = Append(mask_calls, boundary_file)
               /\ boundary_file' = result
               /\ boundary_on_disk' = (result # "None")
               /\ wpc' = IF result = "None" THEN "returned" ELSE "step2"
               /\ UNCHANGED wf_raised
    /\ UNCHANGED <<use_existing, sections_shp, num_people, size_choice,
                   training_results, reached, secVars, smpVars, fnVars, tilVars>>

\* Lines 208-238: Step 2.
CreateSections ==
    /\ wpc = "step2"
    /\ reached' = Append(reached, "step2")
    /\ \E n \in TeamSizes, result \in PathOrNone :
          /\ num_people' = n
          /\ sections_shp' = result
          /\ wpc' = IF result = "None" THEN "returned" ELSE "step3"
    /\ UNCHANGED <<boundary_on_disk, boundary_file, use_existing, mask_calls,
                   size_choice, training_results, wf_raised, secVars, smpVars,
                   fnVars, tilVars>>

\* Lines 240-394: Steps 3, 4 and 5, one step at a time.
RunStep ==
    /\ wpc \in {"step3", "step4", "step5"}
    /\ reached' = Append(reached, wpc)
    /\ CASE wpc = "step3" ->
              \* lines 257-300: the size is chosen and process_all_sections called
              \E choice \in SizeChoices :
                 /\ size_choice' = choice
                 /\ IF CallBinds(ProcessAllSectionsParameters,
                                 ProcessAllSectionsParameters, TrainingCallKeywords)
                    THEN /\ \E results \in {"empty", "some"} : training_results' = results
                         /\ wpc' = "step4"
                         /\ UNCHANGED wf_raised
                    ELSE /\ wf_raised' = "TypeError"
                         /\ wpc' = "raised"
                         /\ UNCHANGED training_results
         [] wpc = "step4" ->
              \* lines 302-328: the rasters are exported when the user asks
              /\ wpc' = "step5"
              /\ UNCHANGED <<size_choice, training_results, wf_raised>>
         [] wpc = "step5" ->
              \* lines 330-394: the project summary is written
              /\ wpc' = "complete"
              /\ UNCHANGED <<size_choice, training_results, wf_raised>>
    /\ UNCHANGED <<boundary_on_disk, boundary_file, use_existing, mask_calls,
                   sections_shp, num_people, secVars, smpVars, fnVars, tilVars>>

\* Lines 414-420: the __main__ block reports the error and the script ends.
MainHandler ==
    /\ wpc = "raised"
    /\ wpc' = "handled"
    /\ UNCHANGED <<boundary_on_disk, boundary_file, use_existing, mask_calls,
                   sections_shp, num_people, size_choice, training_results,
                   reached, wf_raised, secVars, smpVars, fnVars, tilVars>>

NextWorkflow ==
    \/ AskUseExisting
    \/ EnsureBoundary
    \/ CreateSections
    \/ RunStep
    \/ MainHandler

SpecWorkflow == InitWorkflow /\ [][NextWorkflow]_vars

(***************************************************************************)
(* Properties of create_geographic_sections.                               *)
(***************************************************************************)
SectionsDone == spc = "done"

NonDegenerate(e) == e.XMax > e.XMin /\ e.YMax > e.YMin

RectArea(b) == RMul(RSub(b.xmax, b.xmin), RSub(b.ymax, b.ymin))

RECURSIVE SumRectAreas(_, _)
SumRectAreas(evs, k) ==
    IF k = 0 THEN Rat(0) ELSE RAdd(SumRectAreas(evs, k - 1), RectArea(evs[k].bounds))

InsideExtent(b, e) ==
    /\ RLe(Rat(e.XMin), b.xmin) /\ RLe(b.xmax, Rat(e.XMax))
    /\ RLe(Rat(e.YMin), b.ymin) /\ RLe(b.ymax, Rat(e.YMax))

OverlapArea(a, b) ==
    RMul(OverlapLen(a.xmin, a.xmax, b.xmin, b.xmax),
         OverlapLen(a.ymin, a.ymax, b.ymin, b.ymax))

NoOverlaps(evs) ==
    \A i, j \in 1..Len(evs) : i # j => OverlapArea(evs[i].bounds, evs[j].bounds) = Rat(0)

ExtentArea(e) == Rat((e.XMax - e.XMin) * (e.YMax - e.YMin))

\* Cells inside the extent, pairwise disjoint in area, areas summing to the
\* extent's area: together, every point of the extent lies in a cell.
CoversExactly(evs, e) ==
    /\ \A i \in 1..Len(evs) : InsideExtent(evs[i].bounds, e)
    /\ NoOverlaps(evs)
    /\ SumRectAreas(evs, Len(evs)) = ExtentArea(e)

C2_GridSizeHeuristic ==
    spc # "layout" =>
        /\ (num_sections <= 4 => cols = 2 /\ rows = 2)
        /\ (num_sections > 4 /\ num_sections <= 6 => cols = 3 /\ rows = 2)
        /\ (num_sections > 6 /\ num_sections <= 9 => cols = 3 /\ rows = 3)
        /\ (num_sections > 9 => cols = 4 /\ rows = 3)

C2_Witness ==
    /\ SectionsDone
    /\ num_sections = 6
    /\ cols = 3
    /\ rows = 2

\* C3: the loop evaluates exactly the first N cells of the layout in row-major
\* order when cols x rows exceeds N, all cols x rows cells otherwise, and never
\* a cell after the first omitted one.
C3_TrailingTrim ==
    spc # "layout" =>
        /\ \A i \in 1..Len(evaluated) :
               /\ evaluated[i].id = i
               /\ evaluated[i].row = (i - 1) \div cols
               /\ evaluated[i].col = (i - 1) % cols
        /\ Len(evaluated) <= (IF cols * rows > num_sections THEN num_sections ELSE cols * rows)
        /\ SectionsDone =>
               Len(evaluated) = (IF cols * rows > num_sections THEN num_sections ELSE cols * rows)

C3_Witness ==
    /\ SectionsDone
    /\ num_sections = 7
    /\ cols * rows = 9
    /\ Len(evaluated) = 7
    /\ evaluated[7].row = 2
    /\ evaluated[7].col = 0

\* C4: the returned sections are exactly the evaluated cells whose intersection
\* area with the boundary is strictly more than 1 sq km, in row-major order.
AboveMinimum(ev) == RLt(Rat(1), ev.area_sqkm)

KeptCells == SelectSeq(evaluated, AboveMinimum)

CountCells(P(_)) == Cardinality({ i \in 1..Len(evaluated) : P(evaluated[i]) })

ZeroArea(ev) == ev.area_sqkm = Rat(0)

LowArea(ev) == ev.area_sqkm # Rat(0) /\ ~AboveMinimum(ev)

C4_CoverageFilter ==
    /\ Len(sections) = Len(KeptCells)
    /\ \A i \in 1..Len(sections) :
           /\ sections[i].id = KeptCells[i].id
           /\ sections[i].area_sqkm = KeptCells[i].area_sqkm
           /\ sections[i].extent = <<KeptCells[i].bounds.xmin, KeptCells[i].bounds.ymin,
                                     KeptCells[i].bounds.xmax, KeptCells[i].bounds.ymax>>
           /\ sections[i].grid_position =
                  GridPosition(KeptCells[i].row, KeptCells[i].col)

C4_Witness ==
    /\ SectionsDone
    /\ Len(evaluated) = 10
    /\ CountCells(ZeroArea) = 3
    /\ CountCells(LowArea) = 2
    /\ Len(sections) = 5
    /\ \E i \in 1..Len(evaluated) : evaluated[i].area_sqkm = Rat(1)

\* C5: every cell the coverage filter drops has a recorded rejection reason,
\* "outside" for a zero intersection area and "below-threshold" for a nonzero
\* area that is not above the minimum.
Dropped(ev) == \A i \in 1..Len(sections) : sections[i].id # ev.id

C5_RejectionReasons ==
    \A i \in 1..Len(evaluated) :
        Dropped(evaluated[i]) =>
            \E j \in 1..Len(printed) :
                /\ printed[j].kind = "rejected"
                /\ printed[j].id = evaluated[i].id
                /\ printed[j].reason =
                       (IF ZeroArea(evaluated[i]) THEN "outside" ELSE "below-threshold")

\* C6: a partition request on an extent of zero width or height, or with
\* rows <= 0 or cols <= 0, ends in InvalidExtentError and yields no cells.
C6_InvalidExtentFails ==
    (SectionsDone /\ (~NonDegenerate(extent) \/ rows <= 0 \/ cols <= 0)) =>
        /\ outcome = "InvalidExtentError"
        /\ sections = <<>>

(***************************************************************************)
(* Properties of the samplers.                                             *)
(***************************************************************************)
SamplerDone == ppc = "done"

IsLoopScript == sampler \in {"sections", "irregular"}

\* C7: a sampler run for target count T never performs more than T x 20
\* candidate evaluations (grid-pass candidates plus random-pass attempts for
\* generate_stratified_polygons, attempts for the section scripts).
C7_BoundedAttempts ==
    /\ sampler = "stratified" => grid_candidates + attempts <= num_polygons * 20
    /\ IsLoopScript => attempts <= num_random_polygons * 20

C7_Witness ==
    /\ SamplerDone
    /\ sampler = "sections"
    /\ num_random_polygons = 1
    /\ attempts = 20
    /\ successful_polygons = 0

\* C8: the random pass never accepts more than its quota nor attempts more
\* than its budget, and when the budget is exhausted the sampler returns
\* normally with the polygons accepted so far (so that the shortfall is the
\* target minus the returned count), whatever the candidates' outcomes.
C8_ShortfallNotFatal ==
    /\ random_count <= random_polygons
    /\ successful_polygons <= num_random_polygons
    /\ attempts <= max_attempts
    /\ (SamplerDone /\ max_attempts > 0 /\ attempts = max_attempts) =>
           /\ ret.shapefile = TRUE
           /\ ret.count = (IF sampler = "stratified" THEN Len(valid_polygons)
                                                     ELSE Len(inserted))

\* C9: any two distinct polygons accepted in the random pass of
\* generate_stratified_polygons have centres at least 2 x polygon_size apart.
SquaredDistance(p, q) ==
    (p.center_x - q.center_x) * (p.center_x - q.center_x)
      + (p.center_y - q.center_y) * (p.center_y - q.center_y)

C9_MinimumSpacing ==
    \A i, j \in 1..Len(valid_polygons) :
        (i # j /\ valid_polygons[i].strategy = "random"
               /\ valid_polygons[j].strategy = "random") =>
            SquaredDistance(valid_polygons[i], valid_polygons[j])
              >= (2 * polygon_size * RandomDraws) * (2 * polygon_size * RandomDraws)

C9_Witness ==
    /\ SamplerDone
    /\ sampler = "stratified"
    /\ random_count = 2
    /\ attempts > 2
    /\ polygon_size = 2
    /\ \E i, j \in 1..Len(valid_polygons) :
           /\ i # j
           /\ valid_polygons[i].strategy = "random"
           /\ valid_polygons[j].strategy = "random"

\* C10: every polygon a sampler stores lies entirely inside its owning region
\* (the section polygon for the section scripts, the raster's data cells for
\* the hexagons of generate_stratified_polygons).
C10_Containment ==
    /\ \A i \in 1..Len(inserted) : inserted[i].geometry \subseteq section_polygon
    /\ \A i \in 1..Len(valid_polygons) :
           HexagonCells(valid_polygons[i].center_x, valid_polygons[i].center_y,
                        valid_polygons[i].size_m, cell_size, width, height)
             \subseteq DataCells(width, height, data_xmin)

(***************************************************************************)
(* Properties of the strategy split and of the provider's failures.        *)
(***************************************************************************)
\* C11: the grid quota is floor(0.7 x T) and the random quota T minus it;
\* whenever every candidate location evaluated is valid, a run of
\* generate_stratified_polygons that returns its shapefile has accepted
\* exactly the grid quota in the grid pass and T polygons in all, whatever
\* the raster size and the polygon size.
C11_StrategySplit ==
    (sampler = "stratified" /\ ppc # "start") =>
        /\ grid_polygons = (7 * num_polygons) \div 10
        /\ random_polygons = num_polygons - grid_polygons
        /\ (SamplerDone /\ all_valid /\ ret.shapefile) =>
              /\ grid_count = grid_polygons
              /\ Len(valid_polygons) = num_polygons

\* A step that evaluated a candidate and left a failed provider lookup as the
\* latest one.
CandidateStep == attempts' # attempts \/ grid_candidates' # grid_candidates

LookupFailedStep == CandidateStep /\ provider_failures' > 0

\* C12: a failure of the provider's lookup rejects the candidate it was made
\* for and nothing else: the accepted polygons, the rows written and the
\* counters of accepted polygons are as before the step, nothing is returned
\* or raised, and the run stays in the pass it was in.
C12_FailureRejectsOneCandidate ==
    [][LookupFailedStep =>
          /\ valid_polygons' = valid_polygons
          /\ inserted' = inserted
          /\ grid_count' = grid_count
          /\ random_count' = random_count
          /\ successful_polygons' = successful_polygons
          /\ ret' = ret
          /\ raised' = raised
          /\ ppc' = ppc]_vars

C12_Witness ==
    /\ sampler = "stratified"
    /\ ppc = "random"
    /\ provider_failures >= 2
    /\ random_count >= 1
    /\ grid_count >= 1
    /\ attempts < max_attempts

\* C13: once the run of consecutive provider failures exceeds the threshold,
\* the sampler has stopped with ProviderUnavailableError.
C13_FailureEscalation ==
    provider_failures > FailureThreshold =>
        /\ SamplerDone
        /\ raised = "ProviderUnavailableError"

\* C14: a section script given an empty region ends in EmptyRegionError.
C14_EmptyRegionFails ==
    (IsLoopScript /\ SamplerDone /\ section_polygon = EmptyRegion) =>
        raised = "EmptyRegionError"

\* The candidates a sampler has evaluated and those it has accepted.
EvaluatedCandidates ==
    IF sampler = "stratified" THEN grid_candidates + attempts ELSE attempts

AcceptedCandidates ==
    IF sampler = "stratified" THEN Len(valid_polygons) ELSE successful_polygons

\* The rejection counts by reason that a run reports.  The samplers keep
\* none: lines 131, 169-170 and 193-194 print the accepted counts, sections
\* line 223 and irregular line 170 the number of attempts.
RejectionBuckets ==
    [outside_region |-> 0, no_data |-> 0, too_close |-> 0, provider_failure |-> 0]

\* C15: the candidates evaluated are the accepted ones plus those counted in
\* the rejection-reason buckets.
C15_NoSilentLoss ==
    EvaluatedCandidates =
        AcceptedCandidates + RejectionBuckets.outside_region
          + RejectionBuckets.no_data + RejectionBuckets.too_close
          + RejectionBuckets.provider_failure

GridIdsInOrder(polys, gc) ==
    /\ Len(polys) >= gc
    /\ \A i \in 1..Len(polys) :
           IF i <= gc
           THEN /\ polys[i].strategy = "grid_based"
                /\ polys[i].poly_id = "grid_" \o Pad3(i)
           ELSE polys[i].strategy # "grid_based"

C17_JitterBound ==
    (fn = "jitter" /\ out # <<>>) => 4 * Abs(out[1]) <= arg.spacing

\* C18: the centre of a random candidate lies inside the bounding box and at
\* least one polygon size away from its edges, on every box the samplers
\* accept.
C18_BorderBuffer ==
    (fn = "center" /\ out # <<>>) =>
        LET size == PolygonExtent(arg.sampler, arg.polygon_size)
        IN  /\ (arg.lo + size) * RandomDraws <= out[1]
            /\ out[1] <= (arg.lo + arg.length - size) * RandomDraws

\* C20: create_random_irregular_polygon returns a ring of K + 1 points whose
\* last point is the first, the K vertices in strictly increasing angle order.
C20_IrregularRing ==
    (fn = "create_random_irregular_polygon" /\ out # <<>>) =>
        /\ Len(out) = num_vertices + 1
        /\ out[num_vertices + 1] = out[1]
        /\ \A i \in 1..(num_vertices - 1) : out[i].angle < out[i + 1].angle


(***************************************************************************)
(* Properties of the partition code's cell rectangles.                     *)
(***************************************************************************)
\* C21: every cell's x range lies inside the source extent, and the cells of
\* the last column end exactly at the extent's XMax.
C21_EdgeClamping ==
    (fn = "section_bounds" /\ out # <<>>) =>
        /\ FloatLeq(arg.XMin, out[2].xmin)
        /\ FloatLeq(out[2].xmax, arg.XMax)
        /\ (out[1] = arg.cols - 1 => FloatEq(out[2].xmax, arg.XMax))


\* C22: every tile of the fixed-tile-size grid has x1 > x0 and y1 > y0.
C22_NonDegenerateTiles ==
    \A k \in 1..Len(tile_extents) :
        tile_extents[k].x1 > tile_extents[k].x0 /\ tile_extents[k].y1 > tile_extents[k].y0


(***************************************************************************)
(* Properties of the batch tiling scripts.                                 *)
(***************************************************************************)
\* The Clip calls made for tile t, in order.
ClipsOf(t) ==
    LET IsOfTile(c) == c.tile = t
    IN  SelectSeq(clip_log, IsOfTile)

FailedTileSet == { failed_tiles[k] : k \in 1..Len(failed_tiles) }

\* The number of failed tiles a script reports: failed_count, and
\* len(failed_tiles) in script_large_data_strategy.py (line 174).
FailedCount ==
    IF tile_script = "full_extent" THEN failed_count ELSE Len(failed_tiles)

\* C23: a tile is clipped at most max_retries times, never again after its
\* first success, is recorded as failed only after max_retries failed attempts
\* in a row, and a failed tile does not keep the later tiles from being clipped.
C23_BoundedRetry ==
    /\ \A t \in 1..Len(tile_extents) :
          LET clips == ClipsOf(t)
          IN  /\ Len(clips) <= max_retries
              /\ \A i \in 1..Len(clips) :
                    /\ clips[i].attempt = i - 1
                    /\ clips[i].ok => i = Len(clips)
              /\ t \in FailedTileSet =>
                    /\ Len(clips) = max_retries
                    /\ \A i \in 1..Len(clips) : ~clips[i].ok
    /\ \A k \in 1..Len(clip_log) : clip_log[k].tile \in 1..Len(tile_extents)
    /\ tpc = "done" => \A t \in 1..Len(tile_extents) : Len(ClipsOf(t)) >= 1

\* A run in which the first tile failed for good, a later tile needed all
\* its attempts and succeeded, and the script ran to its end.
C23_Witness ==
    /\ tpc = "done"
    /\ failed_tiles = <<1>>
    /\ \E k \in 1..Len(clip_log) :
          clip_log[k].tile > 1 /\ clip_log[k].attempt = max_retries - 1 /\ clip_log[k].ok

\* C29: after a run, processed_count + failed_count is the number of tiles;
\* each tile was handled in one batch, in list order, and counted once; the
\* failed-tiles record holds one entry per failed tile and none for a tile
\* that succeeded.
C29_TileAccounting ==
    tpc = "done" =>
        /\ processed_count + FailedCount = Len(tile_extents)
        /\ \A k \in 1..(Len(clip_log) - 1) : clip_log[k].tile <= clip_log[k + 1].tile
        /\ \A t \in 1..Len(tile_extents) :
              LET clips == ClipsOf(t)
                  succeeded == \E i \in 1..Len(clips) : clips[i].ok
                  entries == { k \in 1..Len(failed_tiles) : failed_tiles[k] = t }
                  lines == { k \in 1..Len(failed_tiles_file) : failed_tiles_file[k] = t }
              IN  /\ Len(clips) >= 1
                  /\ \A i \in 1..Len(clips) : clips[i].batch = (t - 1) \div batch_size + 1
                  /\ Cardinality({ i \in 1..Len(clips) : clips[i].ok }) <= 1
                  /\ Cardinality(entries) = (IF succeeded THEN 0 ELSE 1)
                  /\ Cardinality(lines) = (IF succeeded THEN 0 ELSE 1)
        /\ processed_count = Cardinality({ k \in 1..Len(clip_log) : clip_log[k].ok })
        /\ Len(failed_tiles) = Len(tile_extents) - processed_count

\* A finished run over two batches with a failed tile and a tile that
\* succeeded on a retry.
C29_Witness ==
    /\ tpc = "done"
    /\ Len(tile_extents) > batch_size
    /\ Len(failed_tiles) = 1
    /\ processed_count = Len(tile_extents) - 1
    /\ \E k \in 1..Len(clip_log) : clip_log[k].attempt = 1 /\ clip_log[k].ok


(***************************************************************************)
(* Properties of calculate_optimal_polygons.                               *)
(***************************************************************************)
OptimalReturned == fn = "calculate_optimal_polygons" /\ out # <<>>

\* C24 as stated: for every pair (min_polygons, max_polygons) the returned
\* count is at least min_polygons and at most max_polygons.
C24_BoundsEveryPair ==
    OptimalReturned => out[1] >= arg.min_polygons /\ out[1] <= arg.max_polygons

\* C24, amended: the returned count is at least min_polygons always, at most
\* max_polygons when min_polygons <= max_polygons, and min_polygons itself
\* when min_polygons > max_polygons.
C24_BoundsWhenOrdered ==
    OptimalReturned =>
        /\ out[1] >= arg.min_polygons
        /\ arg.min_polygons <= arg.max_polygons => out[1] <= arg.max_polygons
        /\ arg.min_polygons > arg.max_polygons => out[1] = arg.min_polygons

\* Ordered limits with a count that the upper limit cut down.
C24_Witness ==
    /\ OptimalReturned
    /\ arg.min_polygons < arg.max_polygons
    /\ arg.area_tenths * 4 * arg.land_cover_classes > 5 * arg.max_polygons
    /\ out[1] = arg.max_polygons


(***************************************************************************)
(* Properties of the tile rectangles of script0721.py.                     *)
(***************************************************************************)
\* C27: the 64 tiles are squares of side tile_size, each sharing an edge with
\* its right and upper neighbour, and together they span
\* [center - 4 * tile_size, center + 4 * tile_size] on both axes
\* (coordinates doubled).
C27_CenteredGrid ==
    (fn = "script0721" /\ out # <<>>) =>
        LET tiles == out[1]
            ts == arg.tile_size
            At(r, c) == tiles[r * grid_size + c + 1]
        IN  /\ Len(tiles) = grid_size * grid_size
            /\ \A r \in 0..(grid_size - 1), c \in 0..(grid_size - 1) :
                  /\ At(r, c).x1 - At(r, c).x0 = 2 * ts
                  /\ At(r, c).y1 - At(r, c).y0 = 2 * ts
                  /\ c < grid_size - 1 =>
                        At(r, c + 1).x0 = At(r, c).x1 /\ At(r, c + 1).y0 = At(r, c).y0
                  /\ r < grid_size - 1 =>
                        At(r + 1, c).y0 = At(r, c).y1 /\ At(r + 1, c).x0 = At(r, c).x0
            /\ At(0, 0).x0 = arg.xsum - 2 * half_grid * ts
            /\ At(0, 0).y0 = arg.ysum - 2 * half_grid * ts
            /\ At(grid_size - 1, grid_size - 1).x1 = arg.xsum + 2 * half_grid * ts
            /\ At(grid_size - 1, grid_size - 1).y1 = arg.ysum + 2 * half_grid * ts


(***************************************************************************)
(* Properties of clean_tiles_for_mosaic.                                   *)
(***************************************************************************)
\* C28: a tile that could be read and analysed is rejected exactly when its
\* fraction of NoData pixels is greater than nodata_threshold, and copied
\* exactly when the fraction is at most nodata_threshold.
C28_NoDataThreshold ==
    (/\ fn = "clean_tiles_for_mosaic"
     /\ out # <<>>
     /\ ~arg.load_raises
     /\ ~arg.statistics_raise) =>
        LET above == arg.nodata_pixels * 100 > arg.nodata_threshold * arg.pixel_count
        IN  /\ out[1] = "rejected" <=> above
            /\ out[1] = "copied" <=> ~above


(***************************************************************************)
(* Properties of main_workflow.                                            *)
(***************************************************************************)
WorkflowOver == wpc \in {"complete", "returned", "handled"}

StepReached(step) == \E k \in 1..Len(reached) : reached[k] = step

\* C25: once Step 2 has created the sections and Step 3 has begun, the
\* workflow does not end before Step 4 and Step 5 were reached, whatever
\* happens in Step 3.
C25_SurvivesTrainingFailure ==
    (WorkflowOver /\ sections_shp # "None" /\ StepReached("step3")) =>
        StepReached("step4") /\ StepReached("step5")

\* C26: once Step 1 is over, an answer other than 'y' has led to exactly one
\* mask creation, at the boundary path, with no error, and the answer 'y' to
\* none, the existing file being used.
C26_BoundaryRegeneration ==
    (wpc \notin {"step1", "boundary"} /\ use_existing # "") =>
        IF use_existing = "y"
        THEN mask_calls = <<>> /\ boundary_file = "path" /\ wf_raised = "none"
        ELSE mask_calls = <<"path">> /\ wf_raised = "none"


(***************************************************************************)
(* The value generate_stratified_polygons returns.                         *)
(***************************************************************************)
\* Neither range() call of lines 98-99 raised: the grid loop was entered.
PassesCompleted ==
    ~(grid_spacing_y = 0 \/ (buffer_cells < height - buffer_cells /\ grid_spacing_x = 0))

\* C30: when both passes ran to their end (the feature class exists and
\* every accepted polygon was inserted), the function returns the shapefile
\* and n = grid_count + random_count, the number of polygons inserted, also
\* when n = 0.
C30_ReturnMatchesWritten ==
    (sampler = "stratified" /\ SamplerDone /\ PassesCompleted) =>
        /\ ret.shapefile = TRUE
        /\ ret.count = grid_count + random_count
        /\ ret.count = Len(valid_polygons)

====
